---- MODULE Spec2Model ----
(***************************************************************************)
(* Model of the inclusion-based points-to solver of src/main.rs:           *)
(* ConstraintGraph (nodes index, petgraph DiGraph of RefCell'd nodes) and  *)
(* the phases of ConstraintGraph::solve.                                   *)
(*                                                                         *)
(* Identifiers are opaque strings to the solver, so an input is taken up   *)
(* to renaming: identifiers are numbered in the order init_nodes meets     *)
(* them (left before right, constraint by constraint).                     *)
(***************************************************************************)
EXTENDS Integers, Sequences, FiniteSets, TLC

\* Bounds of the model: number of distinct identifiers, length of the input.
NumIds == 3
MaxLen == 3

Ids == 1..NumIds

\* enum ConstraintKind
ConstraintKind == {"Addr", "Equal", "DerefRight", "DerefLeft"}

\* struct Constraint
Constraint(l, r, k) == [left |-> l, right |-> r, kind |-> k]

Range(s) == {s[i] : i \in DOMAIN s}

Max(a, b) == IF a >= b THEN a ELSE b
Min(a, b) == IF a <= b THEN a ELSE b

\* Identifiers occurring in a constraint sequence.
IdsOf(cs) == {cs[i].left : i \in DOMAIN cs} \cup {cs[i].right : i \in DOMAIN cs}

\* The constraints many0(parse_constraint) can append to cs, one per renaming
\* class: a new identifier is always the next unused number.
NextConstraints(cs) ==
    LET m == Cardinality(IdsOf(cs)) IN
    UNION { { Constraint(l, r, k) :
                k \in ConstraintKind,
                r \in 1..Min(NumIds, Max(m, l) + 1) } :
            l \in 1..Min(NumIds, m + 1) }

VARIABLES
    constraints,   \* the Vec<Constraint> passed to solve
    nodes,         \* ConstraintGraph.nodes: identifier -> NodeIndex
    graph,         \* ConstraintGraph.graph: node weights and edges, in index order
    work_queue,    \* the VecDeque of solve_complex_edges
    panic,         \* "none", or the panic that aborted the process
    pc             \* position inside solve

vars == <<constraints, nodes, graph, work_queue, panic, pc>>

\* ConstraintGraph::new plus an empty work queue.
NewGraph ==
    [nodes |-> << >>,
     graph |-> [nodes |-> << >>, edges |-> << >>],
     work_queue |-> << >>,
     panic |-> "none"]

State ==
    [nodes |-> nodes, graph |-> graph, work_queue |-> work_queue, panic |-> panic]

\* Option::unwrap on nodes.get(id)
has_node(st, id) == id \in DOMAIN st.nodes

\* A slip in add_node: the Vacant test is missing, a node is always created.
add_node_always(st, id) ==
    [st EXCEPT
        !.nodes = (id :> Len(st.graph.nodes) + 1) @@ @,
        !.graph.nodes = Append(@, [id |-> id, pts |-> {}])]

\* ConstraintGraph::add_node
add_node(st, id) ==
    IF id \in DOMAIN st.nodes
    THEN st
    ELSE [st EXCEPT
            !.nodes = @ @@ (id :> Len(st.graph.nodes) + 1),
            !.graph.nodes = Append(@, [id |-> id, pts |-> {}])]

\* A slip in init_nodes: only the left identifier is registered.
RECURSIVE init_nodes_from_left_only(_, _, _)
init_nodes_from_left_only(st, cs, i) ==
    IF i > Len(cs) THEN st
    ELSE init_nodes_from_left_only(add_node(st, cs[i].left), cs, i + 1)

\* ConstraintGraph::init_nodes
RECURSIVE init_nodes_from(_, _, _)
init_nodes_from(st, cs, i) ==
    IF i > Len(cs) THEN st
    ELSE init_nodes_from(add_node(add_node(st, cs[i].left), cs[i].right), cs, i + 1)

init_nodes(st, cs) == init_nodes_from(st, cs, 1)

\* A slip in insert_basic_ptr: the pointer's own identifier is inserted.
insert_basic_ptr_left(st, c) ==
    IF ~(has_node(st, c.right) /\ has_node(st, c.left))
    THEN [st EXCEPT !.panic = "unwrap"]
    ELSE LET id == st.graph.nodes[st.nodes[c.left]].id IN
         [st EXCEPT !.graph.nodes[st.nodes[c.left]].pts = @ \cup {id}]

\* init_basic_ptrs, lines 194-197: the body for one Addr constraint.
insert_basic_ptr(st, c) ==
    IF ~(has_node(st, c.right) /\ has_node(st, c.left))
    THEN [st EXCEPT !.panic = "unwrap"]
    ELSE LET id == st.graph.nodes[st.nodes[c.right]].id IN
         [st EXCEPT !.graph.nodes[st.nodes[c.left]].pts = @ \cup {id}]

\* ConstraintGraph::init_basic_ptrs
RECURSIVE init_basic_ptrs_from(_, _, _)
init_basic_ptrs_from(st, cs, i) ==
    IF i > Len(cs) \/ st.panic # "none" THEN st
    ELSE IF cs[i].kind = "Addr"
         THEN init_basic_ptrs_from(insert_basic_ptr(st, cs[i]), cs, i + 1)
         ELSE init_basic_ptrs_from(st, cs, i + 1)

init_basic_ptrs(st, cs) == init_basic_ptrs_from(st, cs, 1)

\* ConstraintGraph::add_edge (petgraph add_edge appends, parallel edges allowed)
add_edge(st, from, to) ==
    IF ~(has_node(st, from) /\ has_node(st, to))
    THEN [st EXCEPT !.panic = "unwrap"]
    ELSE [st EXCEPT !.graph.edges =
            Append(@, [source |-> st.nodes[from], target |-> st.nodes[to]])]

\* ConstraintGraph::contains_edge (called with registered identifiers)
contains_edge(st, from, to) ==
    \E e \in DOMAIN st.graph.edges :
        /\ st.graph.edges[e].source = st.nodes[from]
        /\ st.graph.edges[e].target = st.nodes[to]

\* A slip in add_simple_edge: the edge runs from left to right.
add_simple_edge_reversed(st, c) == add_edge(st, c.left, c.right)

\* init_simple_edges, line 214: the body for one Equal constraint.
add_simple_edge(st, c) == add_edge(st, c.right, c.left)

\* ConstraintGraph::init_simple_edges
RECURSIVE init_simple_edges_from(_, _, _)
init_simple_edges_from(st, cs, i) ==
    IF i > Len(cs) \/ st.panic # "none" THEN st
    ELSE IF cs[i].kind = "Equal"
         THEN init_simple_edges_from(add_simple_edge(st, cs[i]), cs, i + 1)
         ELSE init_simple_edges_from(st, cs, i + 1)

init_simple_edges(st, cs) == init_simple_edges_from(st, cs, 1)

\* work_queue.push_back
push_back(st, idx) == [st EXCEPT !.work_queue = Append(@, idx)]

\* A slip in seed_from: the is_empty test is missing, every node is queued.
RECURSIVE seed_from_every_node(_, _)
seed_from_every_node(st, idx) ==
    IF idx > Len(st.graph.nodes) THEN st
    ELSE seed_from_every_node(push_back(st, idx), idx + 1)

\* solve_complex_edges, lines 219-225: seed the queue in node index order.
RECURSIVE seed_from(_, _)
seed_from(st, idx) ==
    IF idx > Len(st.graph.nodes) THEN st
    ELSE IF st.graph.nodes[idx].pts # {}
         THEN seed_from(push_back(st, idx), idx + 1)
         ELSE seed_from(st, idx + 1)

seed_work_queue(st) == seed_from([st EXCEPT !.work_queue = << >>], 1)

\* The orders in which iterating a HashMap with these keys can yield them
\* (std's RandomState: any order).
IterationOrders(S) ==
    {o \in [1..Cardinality(S) -> S] : \A i, j \in DOMAIN o : i # j => o[i] # o[j]}

\* A slip in deref_right: the edge leaves the pointer v, not the pointee a.
deref_right_from_pointer(st, c, v_id, a_id) ==
    IF c.right = v_id
    THEN IF ~(has_node(st, v_id) /\ has_node(st, c.left))
         THEN [st EXCEPT !.panic = "unwrap"]
         ELSE IF ~contains_edge(st, v_id, c.left)
              THEN push_back(add_edge(st, v_id, c.left), st.nodes[v_id])
              ELSE st
    ELSE st

\* A slip in deref_right: the new edge's source is not queued.
deref_right_no_enqueue(st, c, v_id, a_id) ==
    IF c.right = v_id
    THEN IF ~(has_node(st, a_id) /\ has_node(st, c.left))
         THEN [st EXCEPT !.panic = "unwrap"]
         ELSE IF ~contains_edge(st, a_id, c.left)
              THEN add_edge(st, a_id, c.left)
              ELSE st
    ELSE st

\* A slip in deref_right: contains_edge is not consulted.
deref_right_unchecked(st, c, v_id, a_id) ==
    IF c.right = v_id
    THEN IF ~(has_node(st, a_id) /\ has_node(st, c.left))
         THEN [st EXCEPT !.panic = "unwrap"]
         ELSE push_back(add_edge(st, a_id, c.left), st.nodes[a_id])
    ELSE st

\* solve_complex_edges, lines 234-237: a DerefRight constraint c met while
\* visiting element a of the points-to set of v.
deref_right(st, c, v_id, a_id) ==
    IF c.right = v_id
    THEN IF ~(has_node(st, a_id) /\ has_node(st, c.left))
         THEN [st EXCEPT !.panic = "unwrap"]
         ELSE IF ~contains_edge(st, a_id, c.left)
              THEN push_back(add_edge(st, a_id, c.left), st.nodes[a_id])
              ELSE st
    ELSE st

\* A slip in deref_left: the edge runs from the pointee a to right.
deref_left_reversed(st, c, v_id, a_id) ==
    IF c.left = v_id
    THEN IF ~(has_node(st, c.right) /\ has_node(st, a_id))
         THEN [st EXCEPT !.panic = "unwrap"]
         ELSE IF ~contains_edge(st, a_id, c.right)
              THEN push_back(add_edge(st, a_id, c.right), st.nodes[a_id])
              ELSE st
    ELSE st

\* A slip in deref_left: the new edge's source is not queued.
deref_left_no_enqueue(st, c, v_id, a_id) ==
    IF c.left = v_id
    THEN IF ~(has_node(st, c.right) /\ has_node(st, a_id))
         THEN [st EXCEPT !.panic = "unwrap"]
         ELSE IF ~contains_edge(st, c.right, a_id)
              THEN add_edge(st, c.right, a_id)
              ELSE st
    ELSE st

\* solve_complex_edges, lines 239-242: a DerefLeft constraint c met while
\* visiting element a of the points-to set of v.
deref_left(st, c, v_id, a_id) ==
    IF c.left = v_id
    THEN IF ~(has_node(st, c.right) /\ has_node(st, a_id))
         THEN [st EXCEPT !.panic = "unwrap"]
         ELSE IF ~contains_edge(st, c.right, a_id)
              THEN push_back(add_edge(st, c.right, a_id), st.nodes[c.right])
              ELSE st
    ELSE st

\* solve_complex_edges, lines 232-244: the scan of the constraints for one
\* element a of v.pts.
RECURSIVE deref_constraints(_, _, _, _, _)
deref_constraints(st, cs, v_id, a_id, i) ==
    IF i > Len(cs) \/ st.panic # "none" THEN st
    ELSE LET c == cs[i]
             after ==
                 IF c.kind = "DerefRight" THEN deref_right(st, c, v_id, a_id)
                 ELSE IF c.kind = "DerefLeft" THEN deref_left(st, c, v_id, a_id)
                 ELSE st
         IN deref_constraints(after, cs, v_id, a_id, i + 1)

\* solve_complex_edges, lines 230-245: dereference resolution for node v, its
\* points-to set visited in the order `order`.
RECURSIVE deref_resolution(_, _, _, _, _)
deref_resolution(st, cs, v_id, order, k) ==
    IF k > Len(order) \/ st.panic # "none" THEN st
    ELSE deref_resolution(deref_constraints(st, cs, v_id, order[k], 1),
                          cs, v_id, order, k + 1)

\* A slip in propagate_edge: a grown target is not queued.
propagate_edge_no_enqueue(st, target, v_pts) ==
    [st EXCEPT !.graph.nodes[target].pts = @ \cup v_pts]

\* A slip in propagate_edge: the target's set is overwritten, not extended.
propagate_edge_overwrite(st, target, v_pts) ==
    LET origin_size == Cardinality(st.graph.nodes[target].pts)
        extended == [st EXCEPT !.graph.nodes[target].pts = v_pts]
    IN IF origin_size # Cardinality(extended.graph.nodes[target].pts)
       THEN push_back(extended, target)
       ELSE extended

\* solve_complex_edges, lines 249-253: extend the target's set with v.pts and
\* queue the target when its size changed.
propagate_edge(st, target, v_pts) ==
    LET origin_size == Cardinality(st.graph.nodes[target].pts)
        extended == [st EXCEPT !.graph.nodes[target].pts = @ \cup v_pts]
    IN IF origin_size # Cardinality(extended.graph.nodes[target].pts)
       THEN push_back(extended, target)
       ELSE extended

\* solve_complex_edges, lines 246-255: propagation along the edges leaving
\* v_idx, in edge index order. v is still borrowed (line 229), so borrow_mut
\* of the target (line 248) panics when the target is v itself.
RECURSIVE propagation(_, _, _, _)
propagation(st, v_idx, v_pts, e) ==
    IF e > Len(st.graph.edges) \/ st.panic # "none" THEN st
    ELSE LET edge == st.graph.edges[e] IN
         IF edge.source # v_idx THEN propagation(st, v_idx, v_pts, e + 1)
         ELSE IF edge.target = v_idx THEN [st EXCEPT !.panic = "BorrowMutError"]
         ELSE propagation(propagate_edge(st, edge.target, v_pts), v_idx, v_pts, e + 1)

\* One iteration of the while loop (lines 227-255) on the node at position
\* `pos` of the queue; pop_front is pos = 1.
remove_at(q, pos) == SubSeq(q, 1, pos - 1) \o SubSeq(q, pos + 1, Len(q))

loop_iteration(st, cs, pos, order) ==
    LET v_idx == st.work_queue[pos]
        v == st.graph.nodes[v_idx]
        popped == [st EXCEPT !.work_queue = remove_at(@, pos)]
        resolved == deref_resolution(popped, cs, v.id, order, 1)
    IN propagation(resolved, v_idx, v.pts, 1)

----
\* The state machine of ConstraintGraph::solve.

Init ==
    /\ constraints = << >>
    /\ nodes = NewGraph.nodes
    /\ graph = NewGraph.graph
    /\ work_queue = NewGraph.work_queue
    /\ panic = "none"
    /\ pc = "parse_constraint_list"

\* parse_constraint_list: many0 appends one more parsed constraint.
ParseConstraint ==
    /\ pc = "parse_constraint_list"
    /\ Len(constraints) < MaxLen
    /\ \E c \in NextConstraints(constraints) : constraints' = Append(constraints, c)
    /\ UNCHANGED <<nodes, graph, work_queue, panic, pc>>

Becomes(st, next_pc) ==
    /\ nodes' = st.nodes
    /\ graph' = st.graph
    /\ work_queue' = st.work_queue
    /\ panic' = st.panic
    /\ pc' = IF st.panic # "none" THEN "panicked" ELSE next_pc
    /\ UNCHANGED constraints

InitNodes ==
    /\ pc = "parse_constraint_list"
    /\ Becomes(init_nodes(State, constraints), "init_basic_ptrs")

InitBasicPtrs ==
    /\ pc = "init_basic_ptrs"
    /\ Becomes(init_basic_ptrs(State, constraints), "init_simple_edges")

InitSimpleEdges ==
    /\ pc = "init_simple_edges"
    /\ Becomes(init_simple_edges(State, constraints), "solve_complex_edges")

SeedWorkQueue ==
    /\ pc = "solve_complex_edges"
    /\ Becomes(seed_work_queue(State), "loop")

LoopIteration ==
    /\ pc = "loop"
    /\ work_queue # << >>
    /\ \E order \in IterationOrders(graph.nodes[Head(work_queue)].pts) :
           Becomes(loop_iteration(State, constraints, 1, order), "loop")

Return ==
    /\ pc = "loop"
    /\ work_queue = << >>
    /\ pc' = "done"
    /\ UNCHANGED <<constraints, nodes, graph, work_queue, panic>>

Next ==
    \/ ParseConstraint
    \/ InitNodes
    \/ InitBasicPtrs
    \/ InitSimpleEdges
    \/ SeedWorkQueue
    \/ LoopIteration
    \/ Return

Spec == Init /\ [][Next]_vars

\* The while loop of solve_complex_edges (lines 226-256) run to its end, the
\* HashMap of each dequeued node iterated in ascending order.
RECURSIVE AscendingOrder(_)
AscendingOrder(S) ==
    IF S = {} THEN << >>
    ELSE LET least == CHOOSE x \in S : \A y \in S : x <= y
         IN <<least>> \o AscendingOrder(S \ {least})

RECURSIVE work_loop(_, _)
work_loop(st, cs) ==
    IF st.panic # "none" \/ st.work_queue = << >> THEN st
    ELSE work_loop(
             loop_iteration(st, cs, 1,
                 AscendingOrder(st.graph.nodes[Head(st.work_queue)].pts)),
             cs)

\* ConstraintGraph::solve_complex_edges
solve_complex_edges(st, cs) ==
    LET seeded == seed_work_queue(st) IN
    IF seeded.panic # "none" THEN seeded ELSE work_loop(seeded, cs)

\* ConstraintGraph::solve called on the graph st.
solve_on(st, cs) ==
    LET n == init_nodes(st, cs)
        b == init_basic_ptrs(n, cs)
        e == IF b.panic # "none" THEN b ELSE init_simple_edges(b, cs)
    IN IF e.panic # "none" THEN e ELSE solve_complex_edges(e, cs)

\* ConstraintGraph::solve on a fresh graph, as a function of the input.
solve(cs) == solve_on(NewGraph, cs)

----
\* The solver with the worklist discipline left open: any queued node may be
\* taken next, not only the front.

LoopIterationAnyOrder ==
    /\ pc = "loop"
    /\ work_queue # << >>
    /\ \E pos \in DOMAIN work_queue :
       \E order \in IterationOrders(graph.nodes[work_queue[pos]].pts) :
           Becomes(loop_iteration(State, constraints, pos, order), "loop")

NextAnyOrder ==
    \/ ParseConstraint
    \/ InitNodes
    \/ InitBasicPtrs
    \/ InitSimpleEdges
    \/ SeedWorkQueue
    \/ LoopIterationAnyOrder
    \/ Return

SpecAnyOrder == Init /\ [][NextAnyOrder]_vars

----
\* A caller that calls solve a second time on the solved graph, with the same
\* constraints.

SolveAgain ==
    /\ pc = "done"
    /\ Becomes(solve_on(State, constraints), "done_again")

NextResolve ==
    \/ ParseConstraint
    \/ InitNodes
    \/ InitBasicPtrs
    \/ InitSimpleEdges
    \/ SeedWorkQueue
    \/ LoopIteration
    \/ Return
    \/ SolveAgain

SpecResolve == Init /\ [][NextResolve]_vars

----
\* Views of the state used by the properties.

Registered == DOMAIN nodes

\* points-to set of the node of identifier id
PtsOf(id) == graph.nodes[nodes[id]].pts

\* inclusion edges as (source identifier, target identifier) pairs
EdgeIds ==
    {<<graph.nodes[graph.edges[e].source].id, graph.nodes[graph.edges[e].target].id>> :
        e \in DOMAIN graph.edges}

ConstraintsOfKind(k) == {c \in Range(constraints) : c.kind = k}

AddrTaken == {c.right : c \in ConstraintsOfKind("Addr")}

AllPts == UNION {graph.nodes[i].pts : i \in DOMAIN graph.nodes}

\* The reference solution: the least family of sets closed under the four
\* rules, computed by iterating the rules from the empty family.
ApplyRules(cs, p) ==
    [x \in IdsOf(cs) |->
        p[x]
        \cup {c.right : c \in {d \in Range(cs) : d.kind = "Addr" /\ d.left = x}}
        \cup UNION {p[c.right] : c \in {d \in Range(cs) : d.kind = "Equal" /\ d.left = x}}
        \cup UNION {UNION {p[o] : o \in p[c.right]} :
                      c \in {d \in Range(cs) : d.kind = "DerefRight" /\ d.left = x}}
        \cup UNION {p[c.right] :
                      c \in {d \in Range(cs) : d.kind = "DerefLeft" /\ x \in p[d.left]}}]

RECURSIVE ClosureFrom(_, _)
ClosureFrom(cs, p) ==
    LET q == ApplyRules(cs, p) IN IF q = p THEN p ELSE ClosureFrom(cs, q)

LeastSolution(cs) == ClosureFrom(cs, [x \in IdsOf(cs) |-> {}])

----
\* C1: for every constraint sequence solve terminates normally: a run never
\* stops anywhere but at the return of solve (no abort, no stuck loop).
C1_SolveTerminatesNormally == pc = "done" \/ ENABLED Next

\* C2: when solve returns, the points-to set of every node equals the least
\* solution of the constraint system.
C2_LeastSolution ==
    pc = "done" =>
        [id \in Registered |-> PtsOf(id)] = LeastSolution(constraints)

\* C2 witness: solve returned and a node holds an object that no Addr
\* constraint gave it (it came through an edge derived from a dereference).
C2_Witness ==
    /\ pc = "done"
    /\ ConstraintsOfKind("Equal") = {}
    /\ \E id \in Registered : \E o \in PtsOf(id) :
          ~\E c \in ConstraintsOfKind("Addr") : c.left = id /\ c.right = o

\* C3: after solve returns, pts(left) contains pts(right) for every Equal
\* constraint, and pts(t) contains pts(s) for every inclusion edge s -> t.
C3_CopyClosure ==
    pc = "done" =>
        /\ \A c \in ConstraintsOfKind("Equal") : PtsOf(c.right) \subseteq PtsOf(c.left)
        /\ \A e \in EdgeIds : PtsOf(e[1]) \subseteq PtsOf(e[2])

\* C3 witness: solve returned with an Equal constraint whose right side
\* points somewhere and whose left side has no Addr constraint of its own.
C3_Witness ==
    /\ pc = "done"
    /\ \E c \in ConstraintsOfKind("Equal") :
          /\ c.left # c.right
          /\ PtsOf(c.right) # {}
          /\ ~\E a \in ConstraintsOfKind("Addr") : a.left = c.left

\* C4: after solve returns, for every DerefRight constraint left = *right and
\* every o in pts(right), pts(left) contains pts(o) and the edge o -> left
\* exists.
C4_LoadClosure ==
    pc = "done" =>
        \A c \in ConstraintsOfKind("DerefRight") : \A o \in PtsOf(c.right) :
            /\ PtsOf(o) \subseteq PtsOf(c.left)
            /\ <<o, c.left>> \in EdgeIds

\* C4 witness: solve returned, a load reads through a pointer whose pointee
\* has a non-empty set different from the pointer's own set.
C4_Witness ==
    /\ pc = "done"
    /\ \E c \in ConstraintsOfKind("DerefRight") : \E o \in PtsOf(c.right) :
          /\ o # c.right
          /\ o # c.left
          /\ PtsOf(o) # {}
          /\ PtsOf(o) # PtsOf(c.right)

\* C5: after solve returns, for every DerefLeft constraint *left = right and
\* every o in pts(left), pts(o) contains pts(right) and the edge right -> o
\* exists, also when the Addr constraints of right come after the store.
C5_StoreClosure ==
    pc = "done" =>
        \A c \in ConstraintsOfKind("DerefLeft") : \A o \in PtsOf(c.left) :
            /\ PtsOf(c.right) \subseteq PtsOf(o)
            /\ <<c.right, o>> \in EdgeIds

\* C5 witness: solve returned, and a store precedes the only Addr constraint
\* of its right side in the input, with a pointee to store into.
C5_Witness ==
    /\ pc = "done"
    /\ \E i, j \in DOMAIN constraints :
          /\ i < j
          /\ constraints[i].kind = "DerefLeft"
          /\ constraints[j].kind = "Addr"
          /\ constraints[j].left = constraints[i].right
          /\ constraints[i].left # constraints[i].right
          /\ ConstraintsOfKind("Equal") = {}
          /\ \E o \in PtsOf(constraints[i].left) :
                /\ o # constraints[i].right
                /\ constraints[j].right \in PtsOf(o)
                /\ ~\E a \in ConstraintsOfKind("Addr") : a.left = o

\* C6: every identifier in any points-to set is the right side of some Addr
\* constraint, in every state; only init_basic_ptrs brings an identifier into
\* the points-to sets that was in none before.
C6_NoSpuriousFacts ==
    /\ [](AllPts \subseteq AddrTaken)
    /\ [][~(AllPts' \subseteq AllPts) => InitBasicPtrs]_vars

\* C6 witness: the loop has propagated an object into a node without an Addr
\* constraint of its own.
C6_Witness ==
    /\ pc = "loop"
    /\ \E id \in Registered :
          /\ PtsOf(id) # {}
          /\ ~\E c \in ConstraintsOfKind("Addr") : c.left = id

\* C7: no step of solve removes an element from a points-to set, a node from
\* the graph or the index, or an inclusion edge.
C7_Monotonic ==
    [][ /\ \A id \in DOMAIN nodes : id \in DOMAIN nodes' /\ nodes'[id] = nodes[id]
        /\ Len(graph.nodes) <= Len(graph'.nodes)
        /\ \A i \in DOMAIN graph.nodes :
              /\ graph'.nodes[i].id = graph.nodes[i].id
              /\ graph.nodes[i].pts \subseteq graph'.nodes[i].pts
        /\ Len(graph.edges) <= Len(graph'.edges)
        /\ \A e \in DOMAIN graph.edges : graph'.edges[e] = graph.edges[e]
      ]_vars

\* C7 witness: in the loop, a node already holding an object received one more.
C7_Witness ==
    /\ pc = "loop"
    /\ \E id \in Registered :
          /\ {c \in ConstraintsOfKind("Addr") : c.left = id} # {}
          /\ \E o \in PtsOf(id) :
                ~\E c \in ConstraintsOfKind("Addr") : c.left = id /\ c.right = o

\* C8: in every state the graph holds at most one inclusion edge for every
\* ordered pair of nodes.
C8_AtMostOneEdgePerPair ==
    \A e1, e2 \in DOMAIN graph.edges :
        graph.edges[e1] = graph.edges[e2] => e1 = e2

\* Outcome of a run as the claims compare it: identifiers with a node, the
\* points-to set of each, and the set of inclusion edges.
PtsIn(st, id) == st.graph.nodes[st.nodes[id]].pts

EdgeIdsIn(st) ==
    {<<st.graph.nodes[st.graph.edges[e].source].id,
       st.graph.nodes[st.graph.edges[e].target].id>> : e \in DOMAIN st.graph.edges}

Reorderings(cs) ==
    {[i \in DOMAIN cs |-> cs[f[i]]] :
        f \in {g \in [DOMAIN cs -> DOMAIN cs] : \A i, j \in DOMAIN cs : i # j => g[i] # g[j]}}

\* C9: with the node to process chosen arbitrarily from the worklist, every
\* run that returns ends with the points-to sets and the inclusion edges of
\* the FIFO run on the same input.
C9_WorklistOrderIndependent ==
    pc = "done" =>
        LET fifo == solve(constraints) IN
        /\ fifo.panic = "none"
        /\ DOMAIN fifo.nodes = Registered
        /\ \A id \in Registered : PtsOf(id) = PtsIn(fifo, id)
        /\ EdgeIds = EdgeIdsIn(fifo)

\* C9 witness: a run that left the FIFO order: the first node seeded, which no
\* edge or dereference can queue again, still waits while a node queued behind
\* it has already propagated its set.
C9_Witness ==
    /\ pc = "loop"
    /\ ConstraintsOfKind("DerefRight") \cup ConstraintsOfKind("DerefLeft") = {}
    /\ 1 \in Range(work_queue)
    /\ ~\E e \in DOMAIN graph.edges : graph.edges[e].target = 1
    /\ \E id \in Registered :
          /\ PtsOf(id) # {}
          /\ ~\E c \in ConstraintsOfKind("Addr") : c.left = id

\* solve on every permutation of the input returns, with the nodes and the
\* points-to sets of the current state.
SameOnEveryReordering ==
    \A cs \in Reorderings(constraints) :
        LET other == solve(cs) IN
        /\ other.panic = "none"
        /\ DOMAIN other.nodes = Registered
        /\ \A id \in Registered : PtsIn(other, id) = PtsOf(id)

\* C10: whenever solve returns, solve on any permutation of the constraint
\* sequence returns as well, with the same set of nodes and the same points-to
\* set for every node.
C10_ConstraintOrderIndependent == [][Return => SameOnEveryReordering]_vars

\* C10 witness: solve returned on an input whose store comes before the Addr
\* constraint that gives the stored variable its points-to set.
C10_Witness ==
    /\ pc = "done"
    /\ Len(constraints) >= 2
    /\ ConstraintsOfKind("Equal") = {}
    /\ constraints[1].kind = "DerefLeft"
    /\ constraints[1].left # constraints[1].right
    /\ constraints[Len(constraints)].kind = "Addr"
    /\ constraints[Len(constraints)].left = constraints[1].right
    /\ \E o \in PtsOf(constraints[1].left) :
          /\ o # constraints[1].right
          /\ constraints[Len(constraints)].right \in PtsOf(o)
          /\ ~\E a \in ConstraintsOfKind("Addr") : a.left = o

\* C11: a second call of solve on the solved graph, with the same constraints,
\* returns and leaves the nodes, every points-to set and the inclusion edges
\* as the first call left them.
C11_ResolveIdempotent ==
    [][SolveAgain => (pc' = "done_again" /\ nodes' = nodes /\ graph' = graph)]_vars

\* C12: from the end of init_nodes on, every identifier of the constraints has
\* exactly one node and exactly one index entry pointing to it, the graph
\* holds no other node, and add_node on a registered identifier changes
\* nothing; right after init_nodes every points-to set is empty.
C12_NodeUniqueness ==
    pc # "parse_constraint_list" =>
        /\ DOMAIN nodes = IdsOf(constraints)
        /\ Len(graph.nodes) = Cardinality(IdsOf(constraints))
        /\ \A id \in DOMAIN nodes :
              /\ nodes[id] \in DOMAIN graph.nodes
              /\ {i \in DOMAIN graph.nodes : graph.nodes[i].id = id} = {nodes[id]}
              /\ add_node(State, id) = State
        /\ pc = "init_basic_ptrs" => \A i \in DOMAIN graph.nodes : graph.nodes[i].pts = {}

\* C12 witness: solve returned on an input in which one identifier occurs many
\* times and another only once, in a constraint that is not an Addr; the
\* latter has its node, with an empty points-to set.
C12_Witness ==
    /\ pc = "done"
    /\ \E id \in Registered :
          Cardinality({i \in DOMAIN constraints :
                          id \in {constraints[i].left, constraints[i].right}}) >= 3
    /\ \E id \in Registered :
          /\ Cardinality({i \in DOMAIN constraints :
                             id \in {constraints[i].left, constraints[i].right}}) = 1
          /\ \A i \in DOMAIN constraints :
                id \in {constraints[i].left, constraints[i].right}
                    => constraints[i].left # constraints[i].right
          /\ PtsOf(id) = {}

\* C13: no index lookup ever fails: the unwrap panic is never raised, and from
\* the end of init_nodes on every identifier of a constraint and every element
\* of a points-to set has a node.
C13_LookupNeverFails ==
    /\ panic # "unwrap"
    /\ pc # "parse_constraint_list" =>
          /\ IdsOf(constraints) \subseteq DOMAIN nodes
          /\ AllPts \subseteq DOMAIN nodes

\* C13 witness: the worklist loop has looked up identifiers and added an edge
\* derived from a dereference, next to static edges and base pointers.
C13_Witness ==
    /\ pc = "loop"
    /\ ConstraintsOfKind("Equal") # {}
    /\ Len(graph.edges) > Cardinality({i \in DOMAIN constraints : constraints[i].kind = "Equal"})

\* Positions of the Equal constraints: one static edge each.
EqualPositions == {i \in DOMAIN constraints : constraints[i].kind = "Equal"}

\* The edges a step appended to the graph, as positions of graph'.edges.
NewEdgePositions == (DOMAIN graph'.edges) \ (DOMAIN graph.edges)

\* The nodes a loop iteration appended to the queue it popped one node from.
Appended == SubSeq(work_queue', Len(work_queue), Len(work_queue'))

\* C14: on an input without Addr constraint solve never aborts or sticks, the
\* worklist is never populated, every points-to set stays empty, and once
\* init_simple_edges has run the edges are exactly the right -> left edges of
\* the Equal constraints, one per constraint, none derived.
C14_NoBaseFacts ==
    ConstraintsOfKind("Addr") = {} =>
        /\ pc # "panicked" /\ panic = "none"
        /\ pc = "loop" => ENABLED Return
        /\ work_queue = << >>
        /\ AllPts = {}
        /\ pc \in {"solve_complex_edges", "loop", "done"} =>
              /\ EdgeIds = {<<c.right, c.left>> : c \in ConstraintsOfKind("Equal")}
              /\ Len(graph.edges) = Cardinality(EqualPositions)

\* C14 witness: solve returned on an Equal cycle a = b; b = a followed by a
\* dereference, with no Addr constraint.
C14_Witness ==
    /\ pc = "done"
    /\ ConstraintsOfKind("Addr") = {}
    /\ \E c, d \in ConstraintsOfKind("Equal") :
          c.left # c.right /\ d.left = c.right /\ d.right = c.left
    /\ ConstraintsOfKind("DerefRight") \cup ConstraintsOfKind("DerefLeft") # {}

\* C15: an iteration that adds an edge for a dereference appends the source
\* of that edge to the worklist in the same iteration, and the source is
\* processed again afterwards: the run goes on with the source queued.
C15_EnqueueOnEdgeDiscovery ==
    [][(pc = "loop" /\ NewEdgePositions # {}) =>
          /\ \A e \in NewEdgePositions : graph'.edges[e].source \in Range(Appended)
          /\ pc' = "loop"]_vars

\* C16: every edge added inside the worklist loop has a source and target
\* that no edge of the graph had before it, static or dynamic, and the
\* number of edges added by the loop is at most the number of ordered pairs
\* of nodes.
C16_NoDynamicDuplicate ==
    /\ [][pc = "loop" =>
            \A e \in NewEdgePositions :
                \A f \in DOMAIN graph'.edges : f < e => graph'.edges[f] # graph'.edges[e]]_vars
    /\ [](pc \in {"loop", "done", "panicked"} =>
            Len(graph.edges) - Cardinality(EqualPositions)
                <= Len(graph.nodes) * Len(graph.nodes))

\* C16 witness: the loop met a dereference whose edge coincides with the edge
\* of an Equal constraint and solve returned with that single edge.
C16_Witness ==
    /\ pc = "done"
    /\ Len(graph.edges) = 1
    /\ \E a \in ConstraintsOfKind("Addr"), l \in ConstraintsOfKind("DerefRight"),
          q \in ConstraintsOfKind("Equal") :
          /\ l.right = a.left
          /\ q.left = l.left
          /\ q.right = a.right
          /\ q.left # q.right

\* The node a FIFO iteration dequeues, and the targets of its outgoing edges
\* once the iteration has run (edges added by the iteration included).
Dequeued == Head(work_queue)

TargetsAfter == {graph'.edges[e].target :
                    e \in {f \in DOMAIN graph'.edges : graph'.edges[f].source = Dequeued}}

\* What the propagation step appended: dereference resolution appends one
\* node per new edge first.
AppendedByPropagation ==
    SubSeq(Appended, Cardinality(NewEdgePositions) + 1, Len(Appended))

\* The effect C17 describes for one iteration.
PropagationEffect ==
    LET v_pts == graph.nodes[Dequeued].pts
        gained == {t \in TargetsAfter : ~(v_pts \subseteq graph.nodes[t].pts)}
    IN /\ \A i \in DOMAIN graph.nodes :
             graph'.nodes[i].pts =
                 IF i \in TargetsAfter THEN graph.nodes[i].pts \cup v_pts
                 ELSE graph.nodes[i].pts
       /\ Range(AppendedByPropagation) = gained
       /\ Len(AppendedByPropagation) = Cardinality(gained)

\* C17: when node v is dequeued, every target of an edge leaving v (edges
\* added in the same iteration included) ends with its set united with
\* pts(v) and is appended exactly when it gained an element; the sets of all
\* other nodes are unchanged.
C17_PropagationStep ==
    [][(pc = "loop" /\ work_queue # << >>) => PropagationEffect]_vars

\* Pending work of the three kinds, as the queue must cover it.
PendingEdges ==
    {e \in DOMAIN graph.edges :
        ~(graph.nodes[graph.edges[e].source].pts
            \subseteq graph.nodes[graph.edges[e].target].pts)}

PendingLoads ==
    {c \in ConstraintsOfKind("DerefRight") :
        \E o \in PtsOf(c.right) : <<o, c.left>> \notin EdgeIds}

PendingStores ==
    {c \in ConstraintsOfKind("DerefLeft") :
        \E o \in PtsOf(c.left) : <<c.right, o>> \notin EdgeIds}

\* C18: at the start of every worklist iteration the source of every edge
\* that still has something to propagate, and the pointer of every load and
\* store that still lacks an edge, is in the worklist.
C18_PendingWorkQueued ==
    pc = "loop" =>
        /\ \A e \in PendingEdges : graph.edges[e].source \in Range(work_queue)
        /\ \A c \in PendingLoads : nodes[c.right] \in Range(work_queue)
        /\ \A c \in PendingStores : nodes[c.left] \in Range(work_queue)

\* C18 witness: an iteration has added an edge and grown a set, which left a
\* dereference whose edge is still missing, its pointer waiting in the queue.
C18_Witness ==
    /\ pc = "loop"
    /\ Len(graph.edges) > Cardinality(EqualPositions)
    /\ PendingLoads \cup PendingStores # {}
    /\ Len(work_queue) >= 2

\* C19: processing a dequeued node never takes a mutable borrow of the node
\* that is still borrowed as v: no iteration ends in BorrowMutError.
C19_NoBorrowConflict == panic # "BorrowMutError"

\* C20: every inclusion edge s -> t comes from an Equal constraint t = s, a
\* DerefRight constraint t = *r with s in pts(r), or a DerefLeft constraint
\* *l = s with t in pts(l).
C20_NoSpuriousEdges ==
    \A e \in EdgeIds :
        \/ \E c \in ConstraintsOfKind("Equal") : c.left = e[2] /\ c.right = e[1]
        \/ \E c \in ConstraintsOfKind("DerefRight") : c.left = e[2] /\ e[1] \in PtsOf(c.right)
        \/ \E c \in ConstraintsOfKind("DerefLeft") : c.right = e[1] /\ e[2] \in PtsOf(c.left)

\* C20 witness: solve returned with an edge derived from a load and an edge
\* derived from a store, neither of them the edge of an Equal constraint.
C20_Witness ==
    /\ pc = "done"
    /\ ConstraintsOfKind("Equal") = {}
    /\ \E c \in ConstraintsOfKind("DerefRight") : \E o \in PtsOf(c.right) :
          <<o, c.left>> \in EdgeIds
    /\ \E c \in ConstraintsOfKind("DerefLeft") : \E o \in PtsOf(c.left) :
          <<c.right, o>> \in EdgeIds

====
